---- MODULE Spec2Model ----
(***************************************************************************)
(* The Olympic dashboard script src/app.py as a state machine.  The script *)
(* is one straight-line module body: it reads athlete_events.csv, cleans   *)
(* the frame, filters Italy, builds one table and one figure after the     *)
(* other and finally the Dash layout.  pc is the position in that body;    *)
(* an exception raised by a statement moves pc to "error" and ends the run.*)
(*                                                                         *)
(* Numeric cells (Age, Height, Weight) hold TWICE the value, so that the   *)
(* x.5 medians pandas produces for an even number of values are exact.     *)
(* A missing numeric cell is NaN (-1); a missing medal is the string "NaN".*)
(***************************************************************************)
EXTENDS Integers, Sequences, FiniteSets, TLC

VARIABLES
    pc,                         \* position in the module body of app.py
    columns,                    \* the columns the CSV file has
    csv,                        \* the rows of the CSV file, as read (never changes)
    df,                         \* app.py:9-33
    ita,                        \* app.py:36
    ita_medals_unique,          \* app.py:41
    medals_by_sport,            \* app.py:46
    participants_by_sport,      \* app.py:60
    medals_by_games_summer,     \* app.py:84
    medals_by_games_winter,     \* app.py:108
    ita_summer_participants,    \* app.py:140
    ita_winter_participants,    \* app.py:157
    fencing,                    \* app.py:176
    fencing_unique_medals,      \* app.py:178
    medals_by_type,             \* app.py:184, 215
    medals_by_event,            \* app.py:227
    fencing_all_unique_medals,  \* app.py:249
    medals_country,             \* app.py:254
    fencing_group,              \* app.py:271-272
    other_sports,               \* app.py:274-275
    age_compare,                \* app.py:277
    mean_age,                   \* app.py:279
    figs,                       \* figure name -> the data px.* was given
    layout,                     \* app.layout: the figures, in page order
    defined,                    \* the module-level table names bound so far
    imputations,                \* how often the median fillna (app.py:12) has run
    passes,                     \* completed runs of the cleaning steps (app.py:11-33)
    first_clean                 \* df as it was after the first cleaning pass

vars == <<pc, columns, csv, df, ita, ita_medals_unique, medals_by_sport,
          participants_by_sport, medals_by_games_summer, medals_by_games_winter,
          ita_summer_participants, ita_winter_participants, fencing,
          fencing_unique_medals, medals_by_type, medals_by_event,
          fencing_all_unique_medals, medals_country, fencing_group, other_sports,
          age_compare, mean_age, figs, layout, defined, imputations, passes,
          first_clean>>

tables == <<ita, ita_medals_unique, medals_by_sport,
          participants_by_sport, medals_by_games_summer, medals_by_games_winter,
          ita_summer_participants, ita_winter_participants, fencing,
          fencing_unique_medals, medals_by_type, medals_by_event,
          fencing_all_unique_medals, medals_country, fencing_group, other_sports,
          age_compare, mean_age>>

-----------------------------------------------------------------------------
(* Bounds and input domains *)

MaxRows == 4

NaN == -1

AllColumns == {"ID", "Name", "Sex", "Age", "Height", "Weight", "NOC", "Games",
               "Year", "Season", "Sport", "Event", "Medal"}

\* Every string that is a group key, in the byte order Python compares them in.
Lex == <<"2000 Summer", "2002 Winter", "2004 Summer",
         "Athletics", "Bronze", "Epee", "FRA", "Fencing", "Foil", "Gold",
         "ITA", "Other sports", "Silver", "Skiing", "Slalom", "Sprint">>

Ord(s) == CHOOSE i \in 1..Len(Lex) : Lex[i] = s

YearOf(games) ==
    CASE games = "2000 Summer" -> 2000
      [] games = "2002 Winter" -> 2002
      [] games = "2004 Summer" -> 2004

SeasonOf(games) == IF games = "2002 Winter" THEN "Winter" ELSE "Summer"

SportOf(event) ==
    CASE event \in {"Foil", "Epee"} -> "Fencing"
      [] event = "Sprint" -> "Athletics"
      [] event = "Slalom" -> "Skiing"

\* One line of the CSV file.  A subject's name and sex go with the subject id;
\* the year and season go with the games label, the sport with the event.
\* Numeric cells hold twice a whole number, or NaN.
Line(id, age, height, weight, noc, games, event, medal) ==
    [ID |-> id, Name |-> <<"name", IF id = 1 THEN "A" ELSE IF id = 2 THEN "B" ELSE "C">>,
     Sex |-> IF id = 2 THEN "F" ELSE "M",
     Age |-> age, Height |-> height, Weight |-> weight,
     NOC |-> noc, Games |-> games, Year |-> YearOf(games), Season |-> SeasonOf(games),
     Sport |-> SportOf(event), Event |-> event, Medal |-> medal]

Row(id, noc, games, event, medal) ==
    Line(id, 2 * (22 + id), IF id = 3 THEN NaN ELSE 2 * (170 + id), 2 * 70,
         noc, games, event, medal)

\* Input lines for the medal tables: one Italian foil fencer over two games with
\* every medal value, a second fencing event, a second sport, a winter sport,
\* and a French fencer with a medal in the same games and event.
MedalRows ==
    {Row(1, "ITA", g, "Foil", m) :
        g \in {"2000 Summer", "2004 Summer"}, m \in {"NaN", "Gold", "Silver", "Bronze"}}
    \cup {Row(2, "ITA", "2004 Summer", "Epee", "Gold"),
          Row(2, "ITA", "2004 Summer", "Sprint", "Gold"),
          Row(1, "ITA", "2002 Winter", "Slalom", "Silver"),
          Row(3, "FRA", "2004 Summer", "Foil", "Bronze")}

\* Input lines for the Italian fencing tables: three team mates sharing one
\* gold medal, the other tiers, a row without a medal and a second event.
FencingRows ==
    {Row(id, "ITA", "2004 Summer", "Foil", "Gold") : id \in {1, 2, 3}}
    \cup {Row(1, "ITA", "2004 Summer", "Foil", "Silver"),
          Row(1, "ITA", "2004 Summer", "Foil", "Bronze"),
          Row(1, "ITA", "2000 Summer", "Foil", "Gold"),
          Row(1, "ITA", "2000 Summer", "Foil", "NaN"),
          Row(2, "ITA", "2004 Summer", "Epee", "Gold")}

\* Input lines for the participant tables: subjects entered in several events
\* and games, for Italy and for France.
ParticipantRows ==
    {Row(1, "ITA", "2004 Summer", "Foil", m) : m \in {"Gold", "Silver", "Bronze"}}
    \cup {Row(1, "ITA", "2004 Summer", "Sprint", "NaN"),
          Row(2, "ITA", "2004 Summer", "Foil", "NaN"),
          Row(1, "ITA", "2002 Winter", "Slalom", "NaN"),
          Row(2, "FRA", "2004 Summer", "Foil", "NaN")}

\* Input lines for the cleaning steps: missing ages, heights, weights and
\* medals, inside and outside the Italian subset.
CleanRows ==
    {Row(1, "ITA", "2004 Summer", "Foil", m) : m \in {"Gold", "Silver", "Bronze"}}
    \cup {Line(1, NaN, 2 * 180, 2 * 80, "ITA", "2000 Summer", "Foil", "NaN"),
          Line(2, 2 * 20, NaN, 2 * 61, "ITA", "2000 Summer", "Sprint", "NaN"),
          Line(3, 2 * 29, 2 * 160, NaN, "FRA", "2000 Summer", "Foil", "Gold"),
          Line(3, NaN, 2 * 165, 2 * 90, "FRA", "2000 Summer", "Foil", "NaN")}

\* Input lines for the runs on a file that lacks a column.
SchemaRows ==
    {Row(1, "ITA", "2004 Summer", "Foil", m) : m \in {"Gold", "Silver", "Bronze"}}
    \cup {Row(2, "ITA", "2000 Summer", "Sprint", "NaN"),
          Row(2, "FRA", "2004 Summer", "Foil", "Gold")}

SeqsUpTo(S, n) == UNION {[1..k -> S] : k \in 0..n}

-----------------------------------------------------------------------------
(* pandas operations *)

\* rows[i] for the i in keep, in row order.
Take(rows, keep) ==
    [k \in 1..Cardinality(keep) |->
        rows[CHOOSE i \in keep : Cardinality({j \in keep : j <= i}) = k]]

\* rows[rows[col] == value]
WhereEq(rows, col, value) ==
    Take(rows, {i \in 1..Len(rows) : rows[i][col] = value})

\* rows[rows[col] != value]
WhereNe(rows, col, value) ==
    Take(rows, {i \in 1..Len(rows) : rows[i][col] /= value})

\* rows.drop_duplicates(subset=...): a row is dropped when a row before it has
\* the same values in all the columns of subset.
DropDuplicates(rows, subset) ==
    Take(rows, {i \in 1..Len(rows) :
                   \A j \in 1..(i - 1) : \E c \in subset : rows[j][c] /= rows[i][c]})

\* The elements of a set of strings, ascending.
Ascending(S) ==
    [k \in 1..Cardinality(S) |->
        CHOOSE x \in S : Cardinality({y \in S : Ord(y) <= Ord(x)}) = k]

\* rows.groupby(by)[col].count(): one entry per value of the column by, the
\* values ascending (groupby sorts its keys), each with the number of its rows.
\* The counted columns (Medal after app.py:33, ID) hold no missing value.
GroupCount(rows, by) ==
    LET keys == Ascending({rows[i][by] : i \in 1..Len(rows)})
    IN  [k \in 1..Len(keys) |->
            [key |-> keys[k],
             n |-> Cardinality({i \in 1..Len(rows) : rows[i][by] = keys[k]})]]

\* Series.sort_values(ascending=False) / DataFrame.sort_values(col,
\* ascending=False): kind defaults to "quicksort", which is not stable, so any
\* arrangement with the counts descending may come out.
SortValuesDescending(series) ==
    LET n == Len(series)
        perms == {p \in [1..n -> 1..n] : \A i, j \in 1..n : i /= j => p[i] /= p[j]}
    IN  {[k \in 1..n |-> series[p[k]]] : p \in
            {q \in perms : \A k \in 1..(n - 1) : series[q[k]].n >= series[q[k + 1]].n}}

\* Series.head(n) / DataFrame.head(n)
HeadN(s, n) == IF Len(s) <= n THEN s ELSE SubSeq(s, 1, n)

TopSports == 10
TopParticipantSports == 5
TopCountries == 20

-----------------------------------------------------------------------------
(* Data loading & preprocessing, app.py:9-33 *)

\* Series.median(): missing values skipped; the middle value, or the mean of
\* the two middle values (cells hold twice the value, so the mean is exact).
\* NaN when there is no value at all.
Median(rows, col) ==
    LET idx == {i \in 1..Len(rows) : rows[i][col] /= NaN}
        n == Cardinality(idx)
        \* idx in ascending order of value, ties by position
        rank(i) == Cardinality({j \in idx : rows[j][col] < rows[i][col]
                                   \/ (rows[j][col] = rows[i][col] /\ j <= i)})
        at(k) == rows[CHOOSE i \in idx : rank(i) = k][col]
    IN  IF n = 0 THEN NaN
        ELSE IF n % 2 = 1 THEN at((n + 1) \div 2)
        ELSE (at(n \div 2) + at(n \div 2 + 1)) \div 2

\* A faulty variant of FillnaMedians: the medians taken over the Italian rows only.
FillnaSubsetMedians(rows) ==
    LET sub == WhereEq(rows, "NOC", "ITA")
        fill(v, m) == IF v = NaN THEN m ELSE v
    IN  [i \in 1..Len(rows) |->
            [rows[i] EXCEPT !.Age = fill(@, Median(sub, "Age")),
                            !.Height = fill(@, Median(sub, "Height")),
                            !.Weight = fill(@, Median(sub, "Weight"))]]

\* df.fillna({"Age": m1, "Height": m2, "Weight": m3}), the medians taken over
\* the whole frame.
FillnaMedians(rows) ==
    LET mAge == Median(rows, "Age")
        mHeight == Median(rows, "Height")
        mWeight == Median(rows, "Weight")
        fill(v, m) == IF v = NaN THEN m ELSE v
    IN  [i \in 1..Len(rows) |->
            [rows[i] EXCEPT !.Age = fill(@, mAge), !.Height = fill(@, mHeight),
                            !.Weight = fill(@, mWeight)]]

\* astype("uint8") of a float cell: the fraction is dropped, the value kept
\* modulo 2^8.  (Cells hold twice the value.)
AsUint8(v) == 2 * ((v \div 2) % 256)

AstypeRows(rows) ==
    [i \in 1..Len(rows) |->
        [rows[i] EXCEPT !.Age = AsUint8(@), !.Height = AsUint8(@),
                        !.Weight = AsUint8(@)]]

\* hashlib.sha256(str(x).encode()).hexdigest(): a digest is a new string, the
\* digest of a digest another one.
Sha256Hex(name) == <<"sha256">> \o name

\* A faulty variant of AnonymiseRows: the names are left as they are.
AnonymiseNothing(rows) == rows

AnonymiseRows(rows) ==
    [i \in 1..Len(rows) |-> [rows[i] EXCEPT !.Name = Sha256Hex(@)]]

\* df["Medal"].fillna("None")
FillMedalRows(rows) ==
    [i \in 1..Len(rows) |->
        [rows[i] EXCEPT !.Medal = IF @ = "NaN" THEN "None" ELSE @]]

Has(cols) == cols \subseteq columns

Raise == pc' = "error"

\* app.py:12-16
Fillna ==
    /\ pc = "fillna"
    /\ IF Has({"Age", "Height", "Weight"})
       THEN df' = FillnaMedians(df) /\ imputations' = imputations + 1 /\ pc' = "astype"
       ELSE Raise /\ UNCHANGED <<df, imputations>>   \* KeyError: 'Age'
    /\ UNCHANGED <<columns, csv, tables, figs, layout, defined, passes, first_clean>>

\* app.py:19-25.  A cell that is still missing (a column with no value at all
\* has no median) cannot be cast to an integer: IntCastingNaNError.  The casts
\* of ID (uint32) and Year (int16) keep the ids and years of the input lines.
Astype ==
    /\ pc = "astype"
    /\ IF /\ Has({"Age", "Height", "Weight", "ID", "Year"})
          /\ \A i \in 1..Len(df) : NaN \notin {df[i].Age, df[i].Height, df[i].Weight}
       THEN df' = AstypeRows(df) /\ pc' = "anonymise"
       ELSE Raise /\ UNCHANGED df
    /\ UNCHANGED <<columns, csv, tables, figs, layout, defined, imputations, passes,
                   first_clean>>

\* app.py:28-30
Anonymise ==
    /\ pc = "anonymise"
    /\ IF Has({"Name"})
       THEN df' = AnonymiseRows(df) /\ pc' = "fill_medal"
       ELSE Raise /\ UNCHANGED df
    /\ UNCHANGED <<columns, csv, tables, figs, layout, defined, imputations, passes,
                   first_clean>>

\* app.py:33: the last cleaning step.
FillMedal ==
    /\ pc = "fill_medal"
    /\ IF Has({"Medal"})
       THEN /\ df' = FillMedalRows(df)
            /\ passes' = passes + 1
            /\ first_clean' = IF passes = 0 THEN df' ELSE first_clean
            /\ pc' = "filter_ita"
       ELSE Raise /\ UNCHANGED <<df, passes, first_clean>>
    /\ UNCHANGED <<columns, csv, tables, figs, layout, defined, imputations>>

\* The cleaning steps app.py:11-33 applied once more to their own output.
Reclean ==
    /\ pc = "filter_ita"
    /\ passes = 1
    /\ pc' = "fillna"
    /\ UNCHANGED <<columns, csv, df, tables, figs, layout, defined, imputations,
                   passes, first_clean>>

-----------------------------------------------------------------------------
(* Italy overall, app.py:36-172 *)

\* A faulty variant of DedupMedals: the medal filter without the drop_duplicates call.
DedupMedalsKeepingRoster(rows) == WhereNe(rows, "Medal", "None")

\* rows[rows["Medal"] != "None"].drop_duplicates(subset=["Games", "Event", "Medal"])
DedupMedals(rows) ==
    DropDuplicates(WhereNe(rows, "Medal", "None"), {"Games", "Event", "Medal"})

\* A faulty variant of DedupParticipants: drop_duplicates(subset=["ID"]).
DedupParticipantsByIdOnly(rows) == DropDuplicates(rows, {"ID"})

\* rows.drop_duplicates(subset=["Games", "ID"])
DedupParticipants(rows) == DropDuplicates(rows, {"Games", "ID"})

Chart(name, data) == (name :> data) @@ figs

\* app.py:36
FilterIta ==
    /\ pc = "filter_ita"
    /\ IF Has({"NOC"})
       THEN /\ ita' = WhereEq(df, "NOC", "ITA")
            /\ defined' = defined \cup {"ita"}
            /\ pc' = "ita_medals_unique"
       ELSE Raise /\ UNCHANGED <<ita, defined>>
    /\ UNCHANGED <<columns, csv, df, ita_medals_unique, medals_by_sport,
          participants_by_sport, medals_by_games_summer, medals_by_games_winter,
          ita_summer_participants, ita_winter_participants, fencing,
          fencing_unique_medals, medals_by_type, medals_by_event,
          fencing_all_unique_medals, medals_country, fencing_group, other_sports,
          age_compare, mean_age, figs, layout, imputations, passes, first_clean>>

\* app.py:41-44
ItaMedalsUnique ==
    /\ pc = "ita_medals_unique"
    /\ IF Has({"Games", "Event"})
       THEN /\ ita_medals_unique' = DedupMedals(ita)
            /\ defined' = defined \cup {"ita_medals_unique"}
            /\ pc' = "medals_by_sport"
       ELSE Raise /\ UNCHANGED <<ita_medals_unique, defined>>
    /\ UNCHANGED <<columns, csv, df, ita, medals_by_sport,
          participants_by_sport, medals_by_games_summer, medals_by_games_winter,
          ita_summer_participants, ita_winter_participants, fencing,
          fencing_unique_medals, medals_by_type, medals_by_event,
          fencing_all_unique_medals, medals_country, fencing_group, other_sports,
          age_compare, mean_age, figs, layout, imputations, passes, first_clean>>

\* app.py:46-57
MedalsBySport ==
    /\ pc = "medals_by_sport"
    /\ IF Has({"Sport"})
       THEN /\ medals_by_sport' \in
                   SortValuesDescending(GroupCount(ita_medals_unique, "Sport"))
            /\ figs' = Chart("fig_medals_by_sport", HeadN(medals_by_sport', TopSports))
            /\ defined' = defined \cup {"medals_by_sport"}
            /\ pc' = "participants_by_sport"
       ELSE Raise /\ UNCHANGED <<medals_by_sport, figs, defined>>
    /\ UNCHANGED <<columns, csv, df, ita, ita_medals_unique,
          participants_by_sport, medals_by_games_summer, medals_by_games_winter,
          ita_summer_participants, ita_winter_participants, fencing,
          fencing_unique_medals, medals_by_type, medals_by_event,
          fencing_all_unique_medals, medals_country, fencing_group, other_sports,
          age_compare, mean_age, layout, imputations, passes, first_clean>>

\* app.py:60-72
ParticipantsBySport ==
    /\ pc = "participants_by_sport"
    /\ participants_by_sport' \in
           SortValuesDescending(GroupCount(DedupParticipants(ita), "Sport"))
    /\ figs' = Chart("fig_participants_by_sport",
                     HeadN(participants_by_sport', TopParticipantSports))
    /\ defined' = defined \cup {"participants_by_sport"}
    /\ pc' = "medals_summer"
    /\ UNCHANGED <<columns, csv, df, ita, ita_medals_unique, medals_by_sport,
          medals_by_games_summer, medals_by_games_winter,
          ita_summer_participants, ita_winter_participants, fencing,
          fencing_unique_medals, medals_by_type, medals_by_event,
          fencing_all_unique_medals, medals_country, fencing_group, other_sports,
          age_compare, mean_age, layout, imputations, passes, first_clean>>

\* app.py:76-97; ita_summer_unique is the deduplicated frame inside.
MedalsSummer ==
    /\ pc = "medals_summer"
    /\ IF Has({"Season"})
       THEN /\ medals_by_games_summer' =
                   GroupCount(DedupMedals(WhereEq(ita, "Season", "Summer")), "Games")
            /\ figs' = Chart("fig_medals_summer", medals_by_games_summer')
            /\ defined' = defined \cup {"ita_summer_unique", "medals_by_games_summer"}
            /\ pc' = "medals_winter"
       ELSE Raise /\ UNCHANGED <<medals_by_games_summer, figs, defined>>
    /\ UNCHANGED <<columns, csv, df, ita, ita_medals_unique, medals_by_sport,
          participants_by_sport, medals_by_games_winter,
          ita_summer_participants, ita_winter_participants, fencing,
          fencing_unique_medals, medals_by_type, medals_by_event,
          fencing_all_unique_medals, medals_country, fencing_group, other_sports,
          age_compare, mean_age, layout, imputations, passes, first_clean>>

\* app.py:100-121
MedalsWinter ==
    /\ pc = "medals_winter"
    /\ medals_by_games_winter' =
           GroupCount(DedupMedals(WhereEq(ita, "Season", "Winter")), "Games")
    /\ figs' = Chart("fig_medals_winter", medals_by_games_winter')
    /\ defined' = defined \cup {"ita_winter_unique", "medals_by_games_winter"}
    /\ pc' = "age_hist"
    /\ UNCHANGED <<columns, csv, df, ita, ita_medals_unique, medals_by_sport,
          participants_by_sport, medals_by_games_summer,
          ita_summer_participants, ita_winter_participants, fencing,
          fencing_unique_medals, medals_by_type, medals_by_event,
          fencing_all_unique_medals, medals_country, fencing_group, other_sports,
          age_compare, mean_age, layout, imputations, passes, first_clean>>

\* app.py:124-130
AgeHist ==
    /\ pc = "age_hist"
    /\ figs' = Chart("fig_age_hist", ita)
    /\ pc' = "sex_pie"
    /\ UNCHANGED <<columns, csv, df, tables, layout, defined, imputations, passes,
                   first_clean>>

\* app.py:133-137: px.pie raises ValueError when names= is no column.
SexPie ==
    /\ pc = "sex_pie"
    /\ IF Has({"Sex"})
       THEN figs' = Chart("fig_sex_pie", ita) /\ pc' = "summer_participants"
       ELSE Raise /\ UNCHANGED figs
    /\ UNCHANGED <<columns, csv, df, tables, layout, defined, imputations, passes,
                   first_clean>>

\* app.py:140-155
SummerParticipants ==
    /\ pc = "summer_participants"
    /\ ita_summer_participants' =
           GroupCount(DedupParticipants(WhereEq(ita, "Season", "Summer")), "Games")
    /\ figs' = Chart("fig_summer_participants", ita_summer_participants')
    /\ defined' = defined \cup {"ita_summer_participants"}
    /\ pc' = "winter_participants"
    /\ UNCHANGED <<columns, csv, df, ita, ita_medals_unique, medals_by_sport,
          participants_by_sport, medals_by_games_summer, medals_by_games_winter,
          ita_winter_participants, fencing,
          fencing_unique_medals, medals_by_type, medals_by_event,
          fencing_all_unique_medals, medals_country, fencing_group, other_sports,
          age_compare, mean_age, layout, imputations, passes, first_clean>>

\* app.py:157-172
WinterParticipants ==
    /\ pc = "winter_participants"
    /\ ita_winter_participants' =
           GroupCount(DedupParticipants(WhereEq(ita, "Season", "Winter")), "Games")
    /\ figs' = Chart("fig_winter_participants", ita_winter_participants')
    /\ defined' = defined \cup {"ita_winter_participants"}
    /\ pc' = "fencing"
    /\ UNCHANGED <<columns, csv, df, ita, ita_medals_unique, medals_by_sport,
          participants_by_sport, medals_by_games_summer, medals_by_games_winter,
          ita_summer_participants, fencing,
          fencing_unique_medals, medals_by_type, medals_by_event,
          fencing_all_unique_medals, medals_country, fencing_group, other_sports,
          age_compare, mean_age, layout, imputations, passes, first_clean>>

-----------------------------------------------------------------------------
(* Fencing (Italy), app.py:176-242 *)

\* app.py:176-181
Fencing ==
    /\ pc = "fencing"
    /\ fencing' = WhereEq(ita, "Sport", "Fencing")
    /\ fencing_unique_medals' = DedupMedals(fencing')
    /\ defined' = defined \cup {"fencing", "fencing_unique_medals"}
    /\ pc' = "medals_by_type"
    /\ UNCHANGED <<columns, csv, df, ita, ita_medals_unique, medals_by_sport,
          participants_by_sport, medals_by_games_summer, medals_by_games_winter,
          ita_summer_participants, ita_winter_participants, medals_by_type,
          medals_by_event, fencing_all_unique_medals, medals_country, fencing_group,
          other_sports, age_compare, mean_age, figs, layout, imputations, passes,
          first_clean>>

\* The years of the rows, ascending.
YearsAscending(rows) ==
    LET S == {rows[i].Year : i \in 1..Len(rows)}
    IN  [k \in 1..Cardinality(S) |->
            CHOOSE y \in S : Cardinality({z \in S : z <= y}) = k]

\* rows.pivot_table(index="Year", columns="Medal", values="ID", aggfunc="count",
\* fill_value=0).reset_index(): one row per year that has a row, one column per
\* medal value that has a row (ascending), each cell the number of rows of that
\* year and medal, 0 where there is none.
PivotByYearAndMedal(rows) ==
    LET years == YearsAscending(rows)
        medals == Ascending({rows[i].Medal : i \in 1..Len(rows)})
        cell(y, m) == Cardinality({i \in 1..Len(rows) :
                                      rows[i].Year = y /\ rows[i].Medal = m})
    IN  [columns |-> <<"Year">> \o medals,
         rows |-> [k \in 1..Len(years) |->
                     [c \in {"Year"} \cup {medals[j] : j \in 1..Len(medals)} |->
                         IF c = "Year" THEN years[k] ELSE cell(years[k], c)]]]

\* app.py:184-194
PivotMedalsByType ==
    /\ pc = "medals_by_type"
    /\ medals_by_type' = PivotByYearAndMedal(fencing_unique_medals)
    /\ defined' = defined \cup {"medals_by_type"}
    /\ pc' = "fig_fencing_medal_types"
    /\ UNCHANGED <<columns, csv, df, ita, ita_medals_unique, medals_by_sport,
          participants_by_sport, medals_by_games_summer, medals_by_games_winter,
          ita_summer_participants, ita_winter_participants, fencing,
          fencing_unique_medals, medals_by_event, fencing_all_unique_medals,
          medals_country, fencing_group, other_sports, age_compare, mean_age, figs,
          layout, imputations, passes, first_clean>>

Columns(table) == {table.columns[j] : j \in 1..Len(table.columns)}

\* app.py:196-208: px.bar raises ValueError when an element of y= is no column
\* of the frame.
FigFencingMedalTypes ==
    /\ pc = "fig_fencing_medal_types"
    /\ IF {"Year", "Gold", "Silver", "Bronze"} \subseteq Columns(medals_by_type)
       THEN /\ figs' = Chart("fig_fencing_medal_types", medals_by_type)
            /\ pc' = "total"
       ELSE Raise /\ UNCHANGED figs
    /\ UNCHANGED <<columns, csv, df, ita, ita_medals_unique, medals_by_sport,
          participants_by_sport, medals_by_games_summer, medals_by_games_winter,
          ita_summer_participants, ita_winter_participants, fencing,
          fencing_unique_medals, medals_by_type, medals_by_event,
          fencing_all_unique_medals, medals_country, fencing_group, other_sports,
          age_compare, mean_age, layout, defined, imputations, passes, first_clean>>

\* medals_by_type[medals_type_cols].sum(axis=1), medals_type_cols the columns
\* among Gold, Silver, Bronze that the frame has.
RowTotal(table, row) ==
    LET val(c) == IF c \in Columns(table) THEN row[c] ELSE 0
    IN  val("Gold") + val("Silver") + val("Bronze")

\* A faulty variant of WithTotal: the sum is stored in the Gold column.
WithTotalOverGold(table) ==
    [columns |-> table.columns,
     rows |-> [k \in 1..Len(table.rows) |->
                 [table.rows[k] EXCEPT !["Gold"] = RowTotal(table, table.rows[k])]]]

WithTotal(table) ==
    [columns |-> IF "Total" \in Columns(table) THEN table.columns
                 ELSE table.columns \o <<"Total">>,
     rows |-> [k \in 1..Len(table.rows) |->
                 ("Total" :> RowTotal(table, table.rows[k])) @@ table.rows[k]]]

\* app.py:211-215: the column is added to medals_by_type in place.
AddTotal ==
    /\ pc = "total"
    /\ medals_by_type' = WithTotal(medals_by_type)
    /\ pc' = "fig_fencing_total_medals"
    /\ UNCHANGED <<columns, csv, df, ita, ita_medals_unique, medals_by_sport,
          participants_by_sport, medals_by_games_summer, medals_by_games_winter,
          ita_summer_participants, ita_winter_participants, fencing,
          fencing_unique_medals, medals_by_event, fencing_all_unique_medals,
          medals_country, fencing_group, other_sports, age_compare, mean_age, figs,
          layout, defined, imputations, passes, first_clean>>

\* app.py:217-224
FigFencingTotal ==
    /\ pc = "fig_fencing_total_medals"
    /\ figs' = Chart("fig_fencing_total_medals", medals_by_type)
    /\ pc' = "medals_by_event"
    /\ UNCHANGED <<columns, csv, df, ita, ita_medals_unique, medals_by_sport,
          participants_by_sport, medals_by_games_summer, medals_by_games_winter,
          ita_summer_participants, ita_winter_participants, fencing,
          fencing_unique_medals, medals_by_type, medals_by_event,
          fencing_all_unique_medals, medals_country, fencing_group, other_sports,
          age_compare, mean_age, layout, defined, imputations, passes, first_clean>>

\* app.py:227-242
MedalsByEvent ==
    /\ pc = "medals_by_event"
    /\ medals_by_event' \in
           SortValuesDescending(GroupCount(fencing_unique_medals, "Event"))
    /\ figs' = Chart("fig_fencing_medals_by_event", medals_by_event')
    /\ defined' = defined \cup {"medals_by_event"}
    /\ pc' = "medals_country"
    /\ UNCHANGED <<columns, csv, df, ita, ita_medals_unique, medals_by_sport,
          participants_by_sport, medals_by_games_summer, medals_by_games_winter,
          ita_summer_participants, ita_winter_participants, fencing,
          fencing_unique_medals, medals_by_type, fencing_all_unique_medals,
          medals_country, fencing_group, other_sports, age_compare, mean_age, layout,
          imputations, passes, first_clean>>

-----------------------------------------------------------------------------
(* Fencing vs rest of the world / other sports, app.py:247-301 *)

\* app.py:247-268; fencing_all is the frame inside.
MedalsCountry ==
    /\ pc = "medals_country"
    /\ fencing_all_unique_medals' = DedupMedals(WhereEq(df, "Sport", "Fencing"))
    /\ medals_country' \in
           SortValuesDescending(GroupCount(fencing_all_unique_medals', "NOC"))
    /\ figs' = Chart("fig_fencing_country_medals", HeadN(medals_country', TopCountries))
    /\ defined' = defined \cup {"fencing_all", "fencing_all_unique_medals",
                                "medals_country"}
    /\ pc' = "fencing_group"
    /\ UNCHANGED <<columns, csv, df, ita, ita_medals_unique, medals_by_sport,
          participants_by_sport, medals_by_games_summer, medals_by_games_winter,
          ita_summer_participants, ita_winter_participants, fencing,
          fencing_unique_medals, medals_by_type, medals_by_event, fencing_group,
          other_sports, age_compare, mean_age, layout, imputations, passes,
          first_clean>>

\* frame["Group"] = label
WithGroup(rows, label) == [i \in 1..Len(rows) |-> ("Group" :> label) @@ rows[i]]

\* app.py:271
FencingGroup ==
    /\ pc = "fencing_group"
    /\ fencing_group' = WhereEq(ita, "Sport", "Fencing")
    /\ defined' = defined \cup {"fencing_group"}
    /\ pc' = "fencing_group_label"
    /\ UNCHANGED <<columns, csv, df, ita, ita_medals_unique, medals_by_sport,
          participants_by_sport, medals_by_games_summer, medals_by_games_winter,
          ita_summer_participants, ita_winter_participants, fencing,
          fencing_unique_medals, medals_by_type, medals_by_event,
          fencing_all_unique_medals, medals_country, other_sports, age_compare,
          mean_age, figs, layout, imputations, passes, first_clean>>

\* app.py:272: the column is added to fencing_group in place.
LabelFencingGroup ==
    /\ pc = "fencing_group_label"
    /\ fencing_group' = WithGroup(fencing_group, "Fencing")
    /\ pc' = "other_sports"
    /\ UNCHANGED <<columns, csv, df, ita, ita_medals_unique, medals_by_sport,
          participants_by_sport, medals_by_games_summer, medals_by_games_winter,
          ita_summer_participants, ita_winter_participants, fencing,
          fencing_unique_medals, medals_by_type, medals_by_event,
          fencing_all_unique_medals, medals_country, other_sports, age_compare,
          mean_age, figs, layout, defined, imputations, passes, first_clean>>

\* app.py:274
OtherSports ==
    /\ pc = "other_sports"
    /\ other_sports' = WhereNe(ita, "Sport", "Fencing")
    /\ defined' = defined \cup {"other_sports"}
    /\ pc' = "other_sports_label"
    /\ UNCHANGED <<columns, csv, df, ita, ita_medals_unique, medals_by_sport,
          participants_by_sport, medals_by_games_summer, medals_by_games_winter,
          ita_summer_participants, ita_winter_participants, fencing,
          fencing_unique_medals, medals_by_type, medals_by_event,
          fencing_all_unique_medals, medals_country, fencing_group, age_compare,
          mean_age, figs, layout, imputations, passes, first_clean>>

\* app.py:275: the column is added to other_sports in place.
LabelOtherSports ==
    /\ pc = "other_sports_label"
    /\ other_sports' = WithGroup(other_sports, "Other sports")
    /\ pc' = "age_compare"
    /\ UNCHANGED <<columns, csv, df, ita, ita_medals_unique, medals_by_sport,
          participants_by_sport, medals_by_games_summer, medals_by_games_winter,
          ita_summer_participants, ita_winter_participants, fencing,
          fencing_unique_medals, medals_by_type, medals_by_event,
          fencing_all_unique_medals, medals_country, fencing_group, age_compare,
          mean_age, figs, layout, defined, imputations, passes, first_clean>>

RECURSIVE SumAge(_)
SumAge(rows) == IF rows = <<>> THEN 0 ELSE Head(rows).Age + SumAge(Tail(rows))

\* numpy.round to one decimal of num/den, in tenths: to the nearest tenth, a
\* tie to the even one.
RoundTenths(num, den) ==
    LET q == (10 * num) \div den
        r == (10 * num) % den
    IN  IF 2 * r < den THEN q
        ELSE IF 2 * r > den THEN q + 1
        ELSE IF q % 2 = 0 THEN q ELSE q + 1

\* rows.groupby("Group")["Age"].mean().reset_index().round(1): the mean age of
\* each group, in tenths of a year (Age cells hold twice the age).
MeanByGroup(rows) ==
    LET groups == Ascending({rows[i].Group : i \in 1..Len(rows)})
        of(g) == WhereEq(rows, "Group", g)
    IN  [k \in 1..Len(groups) |->
            [Group |-> groups[k],
             Age |-> RoundTenths(SumAge(of(groups[k])), 2 * Len(of(groups[k])))]]

\* app.py:277-301
AgeCompare ==
    /\ pc = "age_compare"
    /\ age_compare' = fencing_group \o other_sports
    /\ mean_age' = MeanByGroup(age_compare')
    /\ figs' = Chart("fig_age_fencing_vs_others", age_compare')
    /\ defined' = defined \cup {"age_compare", "mean_age"}
    /\ pc' = "layout"
    /\ UNCHANGED <<columns, csv, df, ita, ita_medals_unique, medals_by_sport,
          participants_by_sport, medals_by_games_summer, medals_by_games_winter,
          ita_summer_participants, ita_winter_participants, fencing,
          fencing_unique_medals, medals_by_type, medals_by_event,
          fencing_all_unique_medals, medals_country, fencing_group, other_sports,
          layout, imputations, passes, first_clean>>

-----------------------------------------------------------------------------
(* Dash app layout, app.py:305-341 *)

PageOrder == <<"fig_medals_by_sport", "fig_participants_by_sport",
               "fig_medals_summer", "fig_medals_winter", "fig_age_hist",
               "fig_sex_pie", "fig_summer_participants", "fig_winter_participants",
               "fig_fencing_medal_types", "fig_fencing_total_medals",
               "fig_fencing_medals_by_event", "fig_fencing_country_medals",
               "fig_age_fencing_vs_others">>

\* app.py:305-341
Layout ==
    /\ pc = "layout"
    /\ layout' = <<PageOrder, mean_age>>
    /\ pc' = "done"
    /\ UNCHANGED <<columns, csv, df, ita, ita_medals_unique, medals_by_sport,
          participants_by_sport, medals_by_games_summer, medals_by_games_winter,
          ita_summer_participants, ita_winter_participants, fencing,
          fencing_unique_medals, medals_by_type, medals_by_event,
          fencing_all_unique_medals, medals_country, fencing_group, other_sports,
          age_compare, mean_age, figs, defined, imputations, passes, first_clean>>

-----------------------------------------------------------------------------
(* Specifications *)

NoTable == <<>>
NoPivot == [columns |-> <<>>, rows |-> <<>>]

\* app.py:9: the state after pd.read_csv.
InitWith(lines, columnSets) ==
    /\ pc = "fillna"
    /\ columns \in columnSets
    /\ csv \in SeqsUpTo(lines, MaxRows)
    /\ df = csv
    /\ ita = NoTable /\ ita_medals_unique = NoTable /\ medals_by_sport = NoTable
    /\ participants_by_sport = NoTable
    /\ medals_by_games_summer = NoTable /\ medals_by_games_winter = NoTable
    /\ ita_summer_participants = NoTable /\ ita_winter_participants = NoTable
    /\ fencing = NoTable /\ fencing_unique_medals = NoTable
    /\ medals_by_type = NoPivot
    /\ medals_by_event = NoTable
    /\ fencing_all_unique_medals = NoTable /\ medals_country = NoTable
    /\ fencing_group = NoTable /\ other_sports = NoTable
    /\ age_compare = NoTable /\ mean_age = NoTable
    /\ figs = <<>>
    /\ layout = <<>>
    /\ defined = {}
    /\ imputations = 0
    /\ passes = 0
    /\ first_clean = <<>>

Init == InitWith(MedalRows, {AllColumns})
InitFencing == InitWith(FencingRows, {AllColumns})
InitParticipants == InitWith(ParticipantRows, {AllColumns})
InitClean == InitWith(CleanRows, {AllColumns})
InitSchema == InitWith(SchemaRows, {AllColumns} \cup {AllColumns \ {c} : c \in AllColumns})

Next ==
    \/ Fillna \/ Astype \/ Anonymise \/ FillMedal
    \/ FilterIta \/ ItaMedalsUnique \/ MedalsBySport \/ ParticipantsBySport
    \/ MedalsSummer \/ MedalsWinter \/ AgeHist \/ SexPie
    \/ SummerParticipants \/ WinterParticipants
    \/ Fencing \/ PivotMedalsByType \/ FigFencingMedalTypes \/ AddTotal
    \/ FigFencingTotal \/ MedalsByEvent \/ MedalsCountry
    \/ FencingGroup \/ LabelFencingGroup \/ OtherSports \/ LabelOtherSports
    \/ AgeCompare \/ Layout

\* The cleaning steps alone, run a second time on their own output.
NextClean == Fillna \/ Astype \/ Anonymise \/ FillMedal \/ Reclean

Spec == Init /\ [][Next]_vars
SpecFencing == InitFencing /\ [][Next]_vars
SpecParticipants == InitParticipants /\ [][Next]_vars
SpecClean == InitClean /\ [][Next]_vars
SpecSchema == InitSchema /\ [][Next]_vars
SpecReclean == InitClean /\ [][NextClean]_vars

-----------------------------------------------------------------------------
(* Claims *)

Rows(t) == {t[i] : i \in 1..Len(t)}

\* The values of row r in the columns of subset.
KeyOf(r, subset) == [c \in subset |-> r[c]]

MedalKey(r) == KeyOf(r, {"Games", "Event", "Medal"})

\* t holds rows of src only, and exactly one row for every combination of
\* values that the rows of src have in the columns of subset.
OnePerKey(t, src, subset) ==
    /\ \A i, j \in 1..Len(t) : KeyOf(t[i], subset) = KeyOf(t[j], subset) => i = j
    /\ Rows(t) \subseteq Rows(src)
    /\ \A i \in 1..Len(src) :
          Cardinality({j \in 1..Len(t) : KeyOf(t[j], subset) = KeyOf(src[i], subset)}) = 1

\* The distinct (games, event, medal) triples of the medal-bearing rows of one
\* year and one tier.
TriplesOf(rows, year, tier) ==
    {MedalKey(rows[i]) : i \in {j \in 1..Len(rows) :
        rows[j].Year = year /\ rows[j].Medal = tier}}

\* C1: the deduplicated medal frames of Italy and of Italian fencing hold no
\* 'None' row and exactly one row for every (games, event, medal) triple of the
\* medal-bearing rows they are made from, and every Gold, Silver or Bronze cell
\* of the fencing pivot is the number of distinct triples of that year and
\* tier: the roster rows of one team medal count once.
C1_DedupMedals ==
    /\ "ita_medals_unique" \in defined =>
          OnePerKey(ita_medals_unique, WhereNe(ita, "Medal", "None"),
                    {"Games", "Event", "Medal"})
    /\ "fencing_unique_medals" \in defined =>
          OnePerKey(fencing_unique_medals, WhereNe(fencing, "Medal", "None"),
                    {"Games", "Event", "Medal"})
    /\ "medals_by_type" \in defined =>
          \A k \in 1..Len(medals_by_type.rows) :
             \A m \in {"Gold", "Silver", "Bronze"} \cap Columns(medals_by_type) :
                medals_by_type.rows[k][m] =
                   Cardinality(TriplesOf(fencing, medals_by_type.rows[k].Year, m))

\* C1 witness: three Gold rows of three subjects in one games and event, and
\* the 2004 Gold cell of the pivot is 1.
C1_Witness ==
    /\ "medals_by_type" \in defined
    /\ Len(fencing) = 3
    /\ \A i \in 1..3 :
          /\ fencing[i].Games = "2004 Summer" /\ fencing[i].Event = "Foil"
          /\ fencing[i].Medal = "Gold"
    /\ {fencing[i].ID : i \in 1..3} = {1, 2, 3}
    /\ Len(fencing_unique_medals) = 1
    /\ \E k \in 1..Len(medals_by_type.rows) :
          medals_by_type.rows[k].Year = 2004 /\ medals_by_type.rows[k].Gold = 1

RECURSIVE SumCounts(_)
SumCounts(series) ==
    IF series = <<>> THEN 0 ELSE Head(series).n + SumCounts(Tail(series))

\* The entries of a per-games participant table are the games of the rows of
\* that season, each with the number of its distinct subject ids.
CountsSubjectsPerGames(table, rows) ==
    /\ {table[k].key : k \in 1..Len(table)} = {rows[i].Games : i \in 1..Len(rows)}
    /\ \A k \in 1..Len(table) :
          table[k].n = Cardinality({rows[i].ID : i \in
                          {j \in 1..Len(rows) : rows[j].Games = table[k].key}})

\* C9: deduplicating the Italian rows keeps exactly one row per (games, subject
\* id) pair, the participants-by-sport counts sum to the number of distinct
\* (games, subject id) pairs of Italy, and the participant count of every games
\* edition is the number of distinct Italian subject ids of that games.
C9_DedupParticipants ==
    /\ "ita" \in defined =>
          OnePerKey(DedupParticipants(ita), ita, {"Games", "ID"})
    /\ "participants_by_sport" \in defined =>
          SumCounts(participants_by_sport) =
             Cardinality({KeyOf(ita[i], {"Games", "ID"}) : i \in 1..Len(ita)})
    /\ "ita_summer_participants" \in defined =>
          CountsSubjectsPerGames(ita_summer_participants, WhereEq(ita, "Season", "Summer"))
    /\ "ita_winter_participants" \in defined =>
          CountsSubjectsPerGames(ita_winter_participants, WhereEq(ita, "Season", "Winter"))

\* C9 witness: subject 1 is entered in two events of the 2004 games and in
\* the 2002 winter games, and counts once in each.
C9_Witness ==
    /\ "ita_winter_participants" \in defined
    /\ \E i, j, k \in 1..Len(ita) :
          /\ ita[i].ID = 1 /\ ita[j].ID = 1 /\ ita[k].ID = 1
          /\ ita[i].Games = "2004 Summer" /\ ita[j].Games = "2004 Summer"
          /\ ita[i].Event /= ita[j].Event
          /\ ita[k].Games = "2002 Winter"
    /\ ita_summer_participants = <<[key |-> "2004 Summer", n |-> 1]>>
    /\ ita_winter_participants = <<[key |-> "2002 Winter", n |-> 1]>>
    /\ SumCounts(participants_by_sport) = 2

NumericColumns == {"Age", "Height", "Weight"}

\* The cell of line i of the file after imputation with the median of the
\* whole file.
Imputed(i, col) == IF csv[i][col] = NaN THEN Median(csv, col) ELSE csv[i][col]

\* C3: the median imputation runs once, before the country filter and before
\* any table or figure exists; the value it substitutes is the median of the
\* column over the whole input (stored through the uint8 cast of app.py:19);
\* and every table is made from that one cleaned frame, which no longer changes.
C3_CleaningOrder ==
    /\ imputations <= 1
    /\ (pc \notin {"fillna", "error"} \/ defined /= {} \/ DOMAIN figs /= {})
          => imputations = 1
    /\ pc = "astype" =>
          \A i \in 1..Len(df) : \A col \in NumericColumns : df[i][col] = Imputed(i, col)
    /\ passes >= 1 =>
          /\ Len(df) = Len(csv)
          /\ \A i \in 1..Len(df) : \A col \in NumericColumns :
                df[i][col] = AsUint8(Imputed(i, col))
    /\ "ita" \in defined => df = first_clean /\ ita = WhereEq(df, "NOC", "ITA")
    /\ "fencing" \in defined => fencing = WhereEq(ita, "Sport", "Fencing")
    /\ "fencing_all_unique_medals" \in defined =>
          Rows(fencing_all_unique_medals) \subseteq Rows(df)
    /\ "age_compare" \in defined =>
          {[c \in AllColumns |-> age_compare[i][c]] : i \in 1..Len(age_compare)}
             = Rows(ita)

\* C3 witness: an Italian row without an age, the median age of the Italian
\* rows differs from the median of the whole file, and the fencing tables exist.
C3_Witness ==
    /\ "medals_by_type" \in defined
    /\ \E i \in 1..Len(csv) :
          /\ csv[i].NOC = "ITA" /\ csv[i].Age = NaN
          /\ ita[1].Age = AsUint8(Median(csv, "Age"))
    /\ Median(WhereEq(csv, "NOC", "ITA"), "Age") \notin {NaN, Median(csv, "Age")}
    /\ AsUint8(Median(WhereEq(csv, "NOC", "ITA"), "Age")) /= AsUint8(Median(csv, "Age"))

\* C5 (as stated): a second run of the cleaning steps on a cleaned frame
\* leaves every field of every row unchanged.
C5_RecleanIsNoOp == passes = 2 => df = first_clean

\* C5 (amended): a second run of the cleaning steps leaves every field but the
\* name unchanged; the name becomes the digest of the first digest, which is
\* another string.
C5_RecleanChangesOnlyName ==
    passes = 2 =>
       /\ Len(df) = Len(first_clean)
       /\ \A i \in 1..Len(df) :
             /\ \A c \in AllColumns \ {"Name"} : df[i][c] = first_clean[i][c]
             /\ df[i].Name = <<"sha256">> \o first_clean[i].Name
             /\ df[i].Name /= first_clean[i].Name

\* C5 witness: the second run has ended on a frame whose first run filled in
\* an age and a medal.
C5_Witness ==
    /\ passes = 2
    /\ \E i \in 1..Len(csv) : csv[i].Age = NaN /\ csv[i].Medal = "NaN"
    /\ \E i \in 1..Len(csv) : csv[i].Age /= NaN

Charted(fig) == fig \in DOMAIN figs

\* What holds of every frame but medals_by_type in a step: the cleaned frame
\* and each table that a figure was built from stay as they are.
ChartedTablesKept ==
    /\ passes >= 1 => df' = df
    /\ Charted("fig_medals_by_sport") => medals_by_sport' = medals_by_sport
    /\ Charted("fig_participants_by_sport") =>
          participants_by_sport' = participants_by_sport
    /\ Charted("fig_medals_summer") => medals_by_games_summer' = medals_by_games_summer
    /\ Charted("fig_medals_winter") => medals_by_games_winter' = medals_by_games_winter
    /\ Charted("fig_age_hist") => ita' = ita
    /\ Charted("fig_summer_participants") =>
          ita_summer_participants' = ita_summer_participants
    /\ Charted("fig_winter_participants") =>
          ita_winter_participants' = ita_winter_participants
    /\ Charted("fig_fencing_medals_by_event") => medals_by_event' = medals_by_event
    /\ Charted("fig_fencing_country_medals") => medals_country' = medals_country
    /\ Charted("fig_age_fencing_vs_others") =>
          age_compare' = age_compare /\ mean_age' = mean_age

\* C8 (as stated): the cleaned frame and every table stay as they are once a
\* figure has been built from them, the fencing year-by-tier table included.
C8_WriteOnce ==
    [][/\ ChartedTablesKept
       /\ Charted("fig_fencing_medal_types") => medals_by_type' = medals_by_type]_vars

\* C8 (amended): as stated, except that the fencing year-by-tier table, after
\* the stacked-bar figure was built from it, gains the Total column; its rows
\* and the cells of the columns the figure read stay, and once the total-line
\* figure is built it stays as it is.
C8_WriteOnceButTotal ==
    [][/\ ChartedTablesKept
       /\ Charted("fig_fencing_medal_types") =>
             /\ Columns(medals_by_type) \subseteq Columns(medals_by_type')
             /\ Columns(medals_by_type') \subseteq Columns(medals_by_type) \cup {"Total"}
             /\ Len(medals_by_type'.rows) = Len(medals_by_type.rows)
             /\ \A k \in 1..Len(medals_by_type.rows) :
                   \A c \in Columns(medals_by_type) :
                      medals_by_type'.rows[k][c] = medals_by_type.rows[k][c]
       /\ Charted("fig_fencing_total_medals") => medals_by_type' = medals_by_type]_vars

\* C8 witness: the Total column is in the table, which is no longer the one
\* the stacked-bar figure was built from.
C8_Witness ==
    /\ Charted("fig_fencing_total_medals")
    /\ "Total" \in Columns(medals_by_type)
    /\ "Total" \notin Columns(figs["fig_fencing_medal_types"])
    /\ pc = "done"

\* C2 (as stated): when Italian fencing has a medal, the pivot has one row for
\* every year Italian fencing has a row in, every row has a Gold, a Silver and
\* a Bronze cell, and Total is their sum.
C2_PivotCompleteness ==
    ("medals_by_type" \in defined /\ fencing_unique_medals /= <<>>) =>
       /\ {medals_by_type.rows[k].Year : k \in 1..Len(medals_by_type.rows)}
             = {fencing[i].Year : i \in 1..Len(fencing)}
       /\ \A k \in 1..Len(medals_by_type.rows) :
             {"Gold", "Silver", "Bronze"} \subseteq DOMAIN medals_by_type.rows[k]
       /\ "Total" \in Columns(medals_by_type) =>
             \A k \in 1..Len(medals_by_type.rows) :
                medals_by_type.rows[k].Total =
                   medals_by_type.rows[k].Gold + medals_by_type.rows[k].Silver
                      + medals_by_type.rows[k].Bronze

\* The row of src in which the value key of column by is met first.
FirstMet(src, by, key) ==
    CHOOSE i \in 1..Len(src) :
       src[i][by] = key /\ \A j \in 1..(i - 1) : src[j][by] /= key

\* The counts descend, and keys with equal counts are in the order in which
\* the rows of src meet them.
RankedStably(table, src, by) ==
    \A a, b \in 1..Len(table) :
       a < b =>
          /\ table[a].n >= table[b].n
          /\ table[a].n = table[b].n =>
                FirstMet(src, by, table[a].key) < FirstMet(src, by, table[b].key)

\* C4 (as stated): every ranked table is in descending order of count, keys
\* with equal counts in the order in which the input rows meet them.
C4_RankingStability ==
    /\ "medals_by_sport" \in defined =>
          RankedStably(medals_by_sport, ita_medals_unique, "Sport")
    /\ "participants_by_sport" \in defined =>
          RankedStably(participants_by_sport, DedupParticipants(ita), "Sport")
    /\ "medals_by_event" \in defined =>
          RankedStably(medals_by_event, fencing_unique_medals, "Event")
    /\ "medals_country" \in defined =>
          RankedStably(medals_country, fencing_all_unique_medals, "NOC")

\* C6 (as stated): with Italian rows in the file but no Italian fencing medal
\* (or no Italian medal at all), the run raises no error.
C6_EmptyIsNoFailure ==
    (/\ passes >= 1
     /\ WhereEq(df, "NOC", "ITA") /= <<>>
     /\ DedupMedals(WhereEq(WhereEq(df, "NOC", "ITA"), "Sport", "Fencing")) = <<>>)
       => pc /= "error"

\* The derived tables of the page (not the filtered or deduplicated frames
\* they are made from).
DerivedTables ==
    {"medals_by_sport", "participants_by_sport", "medals_by_games_summer",
     "medals_by_games_winter", "ita_summer_participants", "ita_winter_participants",
     "medals_by_type", "medals_by_event", "medals_country", "age_compare", "mean_age"}

\* C7 (as stated): on a file that lacks a column no derived table and no
\* figure is ever produced, and the layout is never built.
C7_SchemaMismatchFatalEarly ==
    columns /= AllColumns =>
       /\ defined \cap DerivedTables = {}
       /\ DOMAIN figs = {}
       /\ layout = <<>>

FencingMedal(r) == r.Sport = "Fencing" /\ r.Medal /= "None"

\* The number of distinct (games, event, medal) triples of the fencing medal
\* rows of one national code.
OwnTriples(noc) ==
    Cardinality({MedalKey(df[i]) : i \in {j \in 1..Len(df) :
        FencingMedal(df[j]) /\ df[j].NOC = noc}})

\* C10 (as stated): the medals-by-national-code table gives every code the
\* number of distinct triples of its own fencing medal rows, and the entry of
\* ITA is the sum of the Italian medals-by-event table.
C10_CountryCounts ==
    "medals_country" \in defined =>
       /\ \A i \in 1..Len(df) :
             FencingMedal(df[i]) =>
                \E k \in 1..Len(medals_country) :
                   /\ medals_country[k].key = df[i].NOC
                   /\ medals_country[k].n = OwnTriples(df[i].NOC)
       /\ \A k \in 1..Len(medals_country) :
             medals_country[k].key = "ITA" =>
                medals_country[k].n = SumCounts(medals_by_event)

====
